---- MODULE Spec2Model ----
(***************************************************************************)
(* Model of decorator.py: the Decorator base class (construction, the      *)
(* wrapping hook, the invocation operator, the decoration hook and the     *)
(* non-data descriptor), together with the Logged subclass of the class    *)
(* docstring and functools.update_wrapper / functools.partial as CPython 3 *)
(* implements them.                                                        *)
(***************************************************************************)
EXTENDS Integers, Sequences, FiniteSets, TLC

\* Number of decorator instances that may be constructed.
MaxInst == 2
\* Number of operations explored from the initial state.
MaxSteps == 3

InstIds == 1..MaxInst

----------------------------------------------------------------------------
(* Python values.  Every value is a record of the same shape.              *)

V(k, n, s) == [k |-> k, n |-> n, s |-> s]

None     == V("none", 0, "")
Absent   == V("absent", 0, "")          \* "no such attribute", not a value
IntV(n)   == V("int", n, "")
Str(s)   == V("str", 0, s)
Bool(b)  == V("bool", IF b THEN 1 ELSE 0, "")
Fn(s)    == V("function", 0, s)         \* a def-function
Obj(s)   == V("object", 0, s)           \* an instance of a user class
Inst(i)  == V("inst", i, "")            \* a Decorator instance
Partial(i, s) == V("partial", i, s)     \* functools.partial(Inst(i), Obj(s))

\* def add(a, b): return a + b
add == Fn("add")
\* def method(self, a): return a + 1
method == Fn("method")
\* An instance of a class that defines __call__(self, a, b) and a __len__
\* that returns 0: a callable whose truth value is False.
emptyCallable == Obj("E")
\* An instance of an ordinary class: the receiver of a decorated method.
receiver == Obj("A")

\* Python's truth value of a value (bool(v)).
Truthy(v) ==
    CASE v.k = "none"   -> FALSE
      [] v.k = "int"    -> v.n # 0
      [] v.k = "bool"   -> v.n = 1
      [] v.k = "object" -> v # emptyCallable
      [] OTHER          -> TRUE

\* callable(v)
Callable(v) ==
    \/ v.k \in {"function", "inst", "partial"}
    \/ v = emptyCallable

----------------------------------------------------------------------------
(* Attributes.                                                             *)

\* functools.WRAPPER_ASSIGNMENTS
WRAPPER_ASSIGNMENTS ==
    {"__module__", "__name__", "__qualname__", "__doc__", "__annotations__"}

\* The names an instance's __dict__ can hold in this model.
AttrNames == {"function", "verbose", "__wrapped__"} \cup WRAPPER_ASSIGNMENTS

EmptyDict == [a \in AttrNames |-> Absent]

\* A slot of the heap that holds no instance yet.
NoInstance == [cls |-> "", d |-> EmptyDict]

\* Attributes found on the class of a Decorator instance when the instance's
\* __dict__ does not hold them.
ClassAttr(cls, a) ==
    CASE a = "__module__" -> IF cls = "Decorator" THEN Str("decorator")
                                                  ELSE Str("__main__")
      [] a = "__doc__"    -> IF cls = "Decorator" THEN Str("Defines an interface for class based decorators.")
                                                  ELSE None
      [] OTHER            -> Absent

\* getattr(v, a) in heap h; Absent stands for AttributeError.
GetAttr(h, v, a) ==
    CASE v.k = "function" ->
            (CASE a = "__module__"      -> Str("__main__")
               [] a = "__name__"        -> Str(v.s)
               [] a = "__qualname__"    -> Str(v.s)
               [] a = "__doc__"         -> None
               [] a = "__annotations__" -> Str("{}")
               [] OTHER                 -> Absent)
      [] v.k = "object" ->
            (CASE a = "__module__" -> Str("__main__")
               [] a = "__doc__"    -> None
               [] OTHER            -> Absent)
      [] v.k = "int" ->
            (IF a = "__doc__" THEN Str("int([x]) -> integer") ELSE Absent)
      [] v.k = "inst" ->
            (IF h[v.n].d[a] # Absent THEN h[v.n].d[a]
                                     ELSE ClassAttr(h[v.n].cls, a))
      [] OTHER -> Absent

\* getattr(v, "__dict__", {}): the attributes v carries itself.
DictOf(h, v) ==
    IF v.k = "inst" THEN h[v.n].d ELSE EmptyDict

----------------------------------------------------------------------------
(* Calling the wrapped target.                                             *)

\* x + y
Plus(x, y) ==
    IF x.k = "int" /\ y.k = "int"
    THEN [result |-> IntV(x.n + y.n), error |-> ""]
    ELSE [result |-> Absent, error |-> "TypeError"]

\* f(*args, **kw) for the targets of this model.  kw is a set of
\* <<name, value>> pairs.  A Decorator instance never is the value of a
\* function attribute here (FunctionIsNeverAnInstance), so it has no case.
CallTarget(f, args, kw) ==
    CASE f \in {add, emptyCallable} ->
            (IF Len(args) = 2 /\ kw = {}
             THEN Plus(args[1], args[2])
             ELSE IF Len(args) = 1 /\ Cardinality(kw) = 1
                     /\ \E p \in kw : p[1] = "b"
             THEN Plus(args[1], (CHOOSE p \in kw : p[1] = "b")[2])
             ELSE [result |-> Absent, error |-> "TypeError"])
      [] f = method ->
            (IF Len(args) = 2 /\ kw = {}
             THEN Plus(args[2], IntV(1))
             ELSE [result |-> Absent, error |-> "TypeError"])
      [] f.k \in {"none", "int", "bool", "str"} \/ f = receiver ->
            [result |-> Absent, error |-> "TypeError"]

----------------------------------------------------------------------------
(* The operations of the class.  Each returns the outcome of the call: the *)
(* heap afterwards, the value returned (Absent when an exception left the  *)
(* call), the exception, and what the call did on the way.                 *)

Outcome(h, result, error, hooks, calls, printed, wraps) ==
    [h |-> h, result |-> result, error |-> error, hooks |-> hooks,
     calls |-> calls, printed |-> printed, wraps |-> wraps]

\* update_wrapper with the attribute assignments left out: only the __dict__
\* update and __wrapped__ remain.
update_wrapperDictOnly(h, i, f) ==
    LET updated == [a \in AttrNames |->
                        IF DictOf(h, f)[a] # Absent THEN DictOf(h, f)[a]
                                                    ELSE h[i].d[a]]
    IN  [h EXCEPT ![i].d = [updated EXCEPT !["__wrapped__"] = f]]

\* functools.update_wrapper(self, function): the heap afterwards.
update_wrapper(h, i, f) ==
    LET assigned == [a \in AttrNames |->
                        IF a \in WRAPPER_ASSIGNMENTS /\ GetAttr(h, f, a) # Absent
                        THEN GetAttr(h, f, a)
                        ELSE h[i].d[a]]
        updated  == [a \in AttrNames |->
                        IF DictOf(h, f)[a] # Absent THEN DictOf(h, f)[a]
                                                    ELSE assigned[a]]
    IN  [h EXCEPT ![i].d = [updated EXCEPT !["__wrapped__"] = f]]

\* Decorator.__wrap__(self, function)
__wrap__(h, i, f) ==
    LET h1 == [h EXCEPT ![i].d["function"] = f]
    IN  Outcome(update_wrapper(h1, i, f), Inst(i), "", <<>>, <<>>, <<>>, <<f>>)

\* Decorator.__init__(self, function=None)
__init__(h, i, function) ==
    LET h1 == [h EXCEPT ![i].d["function"] = function]
    IN  IF Truthy(function)
        THEN __wrap__(h1, i, function)
        ELSE Outcome(h1, None, "", <<>>, <<>>, <<>>, <<>>)

\* Logged.__init__(self, function=None, verbose=False)
Logged__init__(h, i, function, verbose) ==
    __init__([h EXCEPT ![i].d["verbose"] = verbose], i, function)

\* One entry of the log of decoration-hook invocations.
HookCall(i, args, kw, ret, error) ==
    [self |-> i, args |-> args, kw |-> kw, ret |-> ret, error |-> error]

\* A base hook that returns None instead of raising.
__decorator__Silent(h, i, args, kw) ==
    Outcome(h, None, "", <<HookCall(i, args, kw, None, "")>>, <<>>, <<>>, <<>>)

\* Decorator.__decorator__(self, *args, **kwargs)
__decorator__(h, i, args, kw) ==
    Outcome(h, Absent, "NotImplementedError",
            <<HookCall(i, args, kw, Absent, "NotImplementedError")>>,
            <<>>, <<>>, <<>>)

\* Logged.__decorator__(self, *args, **kwargs)
Logged__decorator__(h, i, args, kw) ==
    LET f       == h[i].d["function"]
        verbose == Truthy(h[i].d["verbose"])
        name    == GetAttr(h, f, "__name__")
        r       == CallTarget(f, args, kw)
        call    == [f |-> f, args |-> args, kw |-> kw]
    IN  IF verbose /\ name = Absent
        THEN Outcome(h, Absent, "AttributeError",
                     <<HookCall(i, args, kw, Absent, "AttributeError")>>,
                     <<>>, <<>>, <<>>)
        ELSE Outcome(h, r.result, r.error,
                     <<HookCall(i, args, kw, r.result, r.error)>>,
                     <<call>>,
                     IF ~verbose THEN <<>>
                     ELSE IF r.error # "" THEN <<"Now calling", name.s>>
                     ELSE <<"Now calling", name.s, "Finished", name.s>>,
                     <<>>)

\* self.__decorator__(*args, **kwargs), dispatched on the class of self.
Hook(h, i, args, kw) ==
    IF h[i].cls = "Logged" THEN Logged__decorator__(h, i, args, kw)
                           ELSE __decorator__(h, i, args, kw)

\* Decorator.__call__(self, *args, **kwargs)
__call__(h, i, args, kw) ==
    IF Truthy(h[i].d["function"])
    THEN Hook(h, i, args, kw)
    ELSE IF Len(args) = 0
    THEN Outcome(h, Absent, "IndexError", <<>>, <<>>, <<>>, <<>>)
    ELSE __wrap__(h, i, args[1])

\* Decorator.__get__(self, instance, klass=None)
__get__(i, instance) ==
    IF instance = None THEN Inst(i) ELSE Partial(i, instance.s)

\* A binding that appends the instance instead of putting it first.
BoundArgsAppended(instance, args) == args \o <<instance>>

\* The positional arguments functools.partial(self, instance) passes on.
BoundArgs(instance, args) == <<instance>> \o args

----------------------------------------------------------------------------
(* The state: the decorator instances, and a record of the last operation  *)
(* (its inputs, the heap it started from, and its outcome).                *)

VARIABLES heap, last, steps

vars == <<heap, last, steps>>

\* One more operation performed, within the budget of the exploration.
Tick == steps < MaxSteps /\ steps' = steps + 1

Allocated(h) == {i \in InstIds : h[i].cls # ""}

\* The callables a decorator is applied to.
Targets(h) == {add, method, emptyCallable} \cup {Inst(j) : j \in Allocated(h)}

\* Argument lists of a direct invocation of instance i: plain calls, and
\* the call that hands over the target of a parenthesized decorator.
CallInputs(h, i) ==
    {[args |-> <<>>, kw |-> {}],
     [args |-> <<IntV(2), IntV(3)>>, kw |-> {}],
     [args |-> <<IntV(2)>>, kw |-> {<<"b", IntV(3)>>}]}
    \cup {[args |-> <<t>>, kw |-> {}] : t \in Targets(h) \ {Inst(i)}}

\* Argument lists of a call through an instance of the owning class.
BoundInputs ==
    {[args |-> <<IntV(2)>>, kw |-> {}],
     [args |-> <<IntV(2), IntV(3)>>, kw |-> {}]}

Record(op, i, args, kw, target, cfg, instance, out) ==
    [op |-> op, self |-> i, args |-> args, kw |-> kw, target |-> target,
     cfg |-> cfg, instance |-> instance, pre |-> heap,
     result |-> out.result, error |-> out.error, hooks |-> out.hooks,
     calls |-> out.calls, printed |-> out.printed, wraps |-> out.wraps]

NoOutcome == Outcome(heap, Absent, "", <<>>, <<>>, <<>>, <<>>)

Init ==
    /\ steps = 0
    /\ heap = [i \in InstIds |-> NoInstance]
    /\ last = [op |-> "none", self |-> 0, args |-> <<>>, kw |-> {},
               target |-> Absent, cfg |-> Absent, instance |-> Absent,
               pre |-> [i \in InstIds |-> NoInstance],
               result |-> Absent, error |-> "", hooks |-> <<>>,
               calls |-> <<>>, printed |-> <<>>, wraps |-> <<>>]

\* Decorator(function): the constructor expression yields the instance.
ConstructDecorator(function) ==
    /\ Tick
    /\ Allocated(heap) # InstIds
    /\ LET i   == CHOOSE j \in InstIds \ Allocated(heap) :
                      \A k \in InstIds \ Allocated(heap) : j <= k
           out == __init__([heap EXCEPT ![i].cls = "Decorator"], i, function)
       IN  /\ heap' = out.h
           /\ last' = Record("init", i, <<>>, {}, function, Absent, Absent,
                             [out EXCEPT !.result = Inst(i)])

\* Logged(function, verbose=verbose)
ConstructLogged(function, verbose) ==
    /\ Tick
    /\ Allocated(heap) # InstIds
    /\ LET i   == CHOOSE j \in InstIds \ Allocated(heap) :
                      \A k \in InstIds \ Allocated(heap) : j <= k
           out == Logged__init__([heap EXCEPT ![i].cls = "Logged"], i,
                                 function, verbose)
       IN  /\ heap' = out.h
           /\ last' = Record("init", i, <<>>, {}, function, verbose, Absent,
                             [out EXCEPT !.result = Inst(i)])

\* instance(*args, **kw)
Invoke(i, args, kw) ==
    /\ Tick
    /\ i \in Allocated(heap)
    /\ LET out == __call__(heap, i, args, kw)
       IN  /\ heap' = out.h
           /\ last' = Record("call", i, args, kw, Absent, Absent, Absent, out)

\* instance.__wrap__(f), called directly
WrapHook(i, f) ==
    /\ Tick
    /\ i \in Allocated(heap)
    /\ LET out == __wrap__(heap, i, f)
       IN  /\ heap' = out.h
           /\ last' = Record("wrap", i, <<>>, {}, f, Absent, Absent, out)

\* Lookup of the decorator stored as a member of a class: through an
\* instance of that class (receiver) or through the class itself (None).
Access(i, instance) ==
    /\ Tick
    /\ i \in Allocated(heap)
    /\ heap' = heap
    /\ last' = Record("get", i, <<>>, {}, Absent, Absent, instance,
                      [NoOutcome EXCEPT !.result = __get__(i, instance)])

\* Call of the partial object the last lookup returned.
CallBound(args, kw) ==
    /\ Tick
    /\ last.op = "get"
    /\ last.result.k = "partial"
    /\ LET i   == last.result.n
           out == __call__(heap, i, BoundArgs(Obj(last.result.s), args), kw)
       IN  /\ heap' = out.h
           /\ last' = Record("bound", i, args, kw, Absent, Absent,
                             Obj(last.result.s), out)

Next ==
    \/ \E f \in {None} \cup Targets(heap) : ConstructDecorator(f)
    \/ \E f \in {None} \cup Targets(heap), v \in {Bool(FALSE), Bool(TRUE)} :
            ConstructLogged(f, v)
    \/ \E i \in InstIds : \E c \in CallInputs(heap, i) : Invoke(i, c.args, c.kw)
    \/ \E i \in InstIds : \E f \in Targets(heap) \ {Inst(i)} : WrapHook(i, f)
    \/ \E i \in InstIds, o \in {None, receiver} : Access(i, o)
    \/ \E c \in BoundInputs : CallBound(c.args, c.kw)

Spec == Init /\ [][Next]_vars

\* The value of a function attribute is never a Decorator instance: the
\* wrapping step replaces such a target by the target's own function.
FunctionIsNeverAnInstance ==
    \A i \in InstIds : heap[i].d["function"].k \notin {"inst", "partial"}

----------------------------------------------------------------------------
(* The claims.  Each is stated about the last operation: last.pre is the   *)
(* heap it started from, heap the heap it left.                            *)

Acted == last.op # "none"

Before == last.pre[last.self]

After == heap[last.self]

\* The instance holds a wrapped target.
HoldsTarget(r) == r.cls # "" /\ r.d["function"] \notin {None, Absent}

\* Every later invocation of the instance is routed to the decoration hook
\* and none to the wrapping step.
RoutedToHook(h, i) ==
    \A c \in CallInputs(h, i) :
        LET out == __call__(h, i, c.args, c.kw)
        IN  Len(out.hooks) = 1 /\ out.wraps = <<>>

\* The last operation ran the decoration hook exactly once, with exactly the
\* positional arguments args and the keywords of the call, and handed back
\* what the hook returned or raised.
HookRanOnceWith(args) ==
    last.hooks = <<HookCall(last.self, args, last.kw, last.result, last.error)>>

\* C1: invoking a subclass instance that holds a wrapped target calls the
\* decoration hook exactly once with exactly the arguments of the call and
\* returns the hook's result unchanged.
C1_ArmedCallRunsHook ==
    (last.op = "call" /\ Before.cls = "Logged" /\ HoldsTarget(Before))
        => HookRanOnceWith(last.args)

\* C2: the first invocation of a deferred instance with a callable f as its
\* first argument runs neither the hook nor f, performs the wrapping step on
\* f, returns that same instance, and leaves it armed with wrapped target f,
\* so that the next invocation is routed to the decoration hook.
C2_DeferredCallWraps ==
    (/\ last.op = "call"
     /\ Before.d["function"] = None
     /\ Len(last.args) >= 1
     /\ Callable(last.args[1]))
        => /\ last.hooks = <<>>
           /\ last.calls = <<>>
           /\ last.error = ""
           /\ last.wraps = <<last.args[1]>>
           /\ last.result = Inst(last.self)
           /\ After.d["function"] = last.args[1]
           /\ RoutedToHook(heap, last.self)

\* A deferred instance as construction left it: its function is None and it
\* carries nothing but its configuration.
FreshDeferred(r) ==
    /\ r.cls # ""
    /\ r.d = [EmptyDict EXCEPT !["function"] = None,
                               !["verbose"] = r.d["verbose"]]

\* The heap the direct form cls(f, verbose) leaves, built in slot i of h.
DirectForm(h, i, f) ==
    LET blank == [h EXCEPT ![i].d = EmptyDict]
    IN  IF h[i].cls = "Logged"
        THEN Logged__init__(blank, i, f, h[i].d["verbose"]).h
        ELSE __init__(blank, i, f).h

\* C3: the two-step application cls(config)(func) yields an instance with
\* the same wrapped target, copied metadata and configuration as the direct
\* form cls(func, config), and with the same result on every later call.
C3_TwoStepEqualsDirect ==
    (/\ last.op = "call"
     /\ Before.cls = "Logged"
     /\ FreshDeferred(Before)
     /\ Len(last.args) = 1
     /\ Callable(last.args[1]))
        => LET direct == DirectForm(last.pre, last.self, last.args[1])
           IN  /\ After = direct[last.self]
               /\ \A c \in CallInputs(heap, last.self) :
                    LET two == __call__(heap, last.self, c.args, c.kw)
                        one == __call__(direct, last.self, c.args, c.kw)
                    IN  two.result = one.result /\ two.error = one.error

C6_ConstructionArms ==
    last.op = "init"
        => IF last.target = None
           THEN After.d["function"] = None /\ last.wraps = <<>>
           ELSE last.wraps = <<last.target>> /\ RoutedToHook(heap, last.self)

\* C7: once an instance holds a wrapped target, no invocation, wrapping-hook
\* call or attribute access changes that target.
C7_TargetSetAtMostOnce ==
    Acted => \A i \in InstIds :
                HoldsTarget(last.pre[i])
                    => heap[i].d["function"] = last.pre[i].d["function"]

\* C8: after the wrapping step on f, each descriptive attribute (name,
\* docstring, module, and the others update_wrapper assigns) that f has is
\* equal on the instance and on f; an attribute f lacks raises no error and
\* keeps the value the instance had for it.
C8_WrapCopiesMetadata ==
    last.wraps # <<>>
        => /\ last.error = ""
           /\ \A a \in WRAPPER_ASSIGNMENTS :
                LET theirs == GetAttr(last.pre, last.wraps[1], a)
                IN  IF theirs # Absent THEN After.d[a] = theirs
                                       ELSE After.d[a] = Before.d[a]

\* An instance named after add was re-wrapped around a callable without a
\* name: module and docstring were copied, the name stayed.
C8_Witness ==
    /\ last.op = "wrap"
    /\ last.wraps = <<emptyCallable>>
    /\ Before.d["__name__"] = Str("add")
    /\ After.d["__name__"] = Str("add")
    /\ After.d["__module__"] = Str("__main__")
    /\ After.d["__doc__"] = None

\* C9: when the wrapping hook called with f returns, the wrapped target of
\* the instance is exactly f, also for an f that carries attributes of its
\* own, and the value returned is the instance.
C9_WrapSetsExactlyTarget ==
    last.wraps # <<>>
        => /\ After.d["function"] = last.wraps[1]
           /\ last.result = Inst(last.self)

\* C10: the wrapping step leaves the configuration attribute set at
\* construction as it was, also for a target with an attribute of that name.
C10_WrapKeepsConfiguration ==
    last.wraps # <<>>
        => After.d["verbose"] =
              (IF last.op = "init" THEN last.cfg ELSE Before.d["verbose"])

====
